---- MODULE Spec2Model ----
(***************************************************************************)
(* Model of the CSS anchor-positioning polyfill.                           *)
(*                                                                         *)
(*  - the rewrite pass parseCSS with its module-level registries           *)
(*    (anchorNames, customPropAssignments), specification Spec;            *)
(*  - the fallback selector applyPositionFallbacks, one evaluation per     *)
(*    layout-change notification, specification SpecFallback.              *)
(***************************************************************************)
EXTENDS Integers, Sequences, FiniteSets, TLC

(***************************************************************************)
(* Bounds                                                                  *)
(***************************************************************************)
MaxRules == 3        \* rules/at-rules an author writes into the document
MaxSources == 2      \* style sources of the document
MaxCalls == 2        \* invocations of parseCSS

(***************************************************************************)
(* JavaScript values                                                       *)
(***************************************************************************)
Undef == "undefined"
Null == "null"

RECURSIVE SeqToSet(_)
SeqToSet(s) == IF s = <<>> THEN {} ELSE {Head(s)} \cup SeqToSet(Tail(s))

(***************************************************************************)
(* css-tree nodes.  A child of a function is [type, name, arg]; the value  *)
(* of a declaration is its first node [type, name, children].              *)
(***************************************************************************)
Identifier(n) == [type |-> "Identifier", name |-> n, arg |-> ""]
Percentage(v) == [type |-> "Percentage", name |-> v, arg |-> ""]
Dimension(v) == [type |-> "Dimension", name |-> v, arg |-> ""]
Comma == [type |-> "Operator", name |-> ",", arg |-> ""]
VarChild(p) == [type |-> "Function", name |-> "var", arg |-> p]

Literal(text) == [type |-> "Identifier", name |-> text, children |-> <<>>]
AnchorCall(children) == [type |-> "Function", name |-> "anchor", children |-> children]
VarCall(p) == [type |-> "Function", name |-> "var", children |-> <<Identifier(p)>>]

Decl(property, value) == [property |-> property, value |-> value]
Rule(selector, property, value) ==
    [type |-> "Rule", prelude |-> selector, property |-> property,
     value |-> value, block |-> <<>>]
Atrule(name, prelude, tries) ==
    [type |-> "Atrule", prelude |-> prelude, property |-> name,
     value |-> Literal(""), block |-> tries]

\* csstree.generate of one child of a function
generate(child) ==
    CASE child.type = "Percentage" -> child.name \o "%"
      [] child.type = "Function" -> child.name \o "(" \o child.arg \o ")"
      [] OTHER -> child.name

\* csstree.generate of a declaration value (try-block literals)
generateValue(value) ==
    IF value.type = "Function"
    THEN value.name \o "(...)"
    ELSE value.name

(***************************************************************************)
(* Classifiers                                                             *)
(***************************************************************************)
InsetProperties == {"left", "right", "top", "bottom"}
isInset(property) == property \in InsetProperties

\* the property names of the model that start with "--"
CustomProperties == {"--c", "--v"}
startsWithDashes(property) == property \in CustomProperties

isAnchorNameDeclaration(node) == node.type = "Rule" /\ node.property = "anchor-name"
isAnchorFunction(node) == node.type = "Function" /\ node.name = "anchor"
isVarFunction(node) == node.type = "Function" /\ node.name = "var"
isFallbackDeclaration(node) == node.type = "Rule" /\ node.property = "position-fallback"
isFallbackAtRule(node) == node.type = "Atrule" /\ node.property = "position-fallback"
isIdentifier(node) == node.type = "Identifier" /\ node.name # ""
isPercentage(node) == node.type = "Percentage" /\ node.name # ""

\* Number(child.value): the decimal numerals convert, anything else is NaN
Numerals == {"0", "25", "50", "100"}

(***************************************************************************)
(* State                                                                   *)
(***************************************************************************)
VARIABLES
    sample,                 \* the sample stylesheet the author's rules come from
    document,               \* the DOM: elements, validity, computed style
    styleData,              \* the StyleData records handed to parseCSS
    styleIn,                \* styleData as it was on entry to the last parseCSS
    anchorNames,            \* module-level registry: anchor name -> selectors
    customPropAssignments,  \* module-level table: custom property -> AnchorFunction
    uuidCount,              \* uuid() values handed out so far
    rules,                  \* validPositions returned by the last parseCSS
    tryBlocks,              \* the TryBlock arrays the returned rules refer to
    namesIn,                \* anchorNames on entry to the last parseCSS
    propsIn,                \* customPropAssignments on entry to the last parseCSS
    calls,                  \* parseCSS invocations so far
    authored,               \* rules the author has written so far
    phase                   \* "parsed" right after a parseCSS, else "authoring"

parseVars == <<sample, document, styleData, styleIn, anchorNames,
               customPropAssignments, uuidCount, rules, tryBlocks,
               namesIn, propsIn, calls, authored, phase>>

\* the state of the fallback selector
VARIABLES
    fallbacks,              \* the identifiers (uuid) of the try-blocks, in source order
    order,                  \* the order argument
    subscribed,             \* the targets autoUpdate was called for
    cleanups,               \* the targets whose autoUpdate cleanup the caller kept
    checking,               \* per target: the closure's busy flag
    marker,                 \* per target: the data-anchor-polyfill attribute, or undefined
    evals,                  \* per target: the callback invocations suspended at an await
    last,                   \* the evaluation that ended last, until another one begins
    notified,               \* callback invocations so far
    dropped                 \* per target: invocations that returned at `if (checking)`

fallbackVars == <<fallbacks, order, subscribed, cleanups, checking, marker, evals,
                  last, notified, dropped>>

\* the state of applyAnchorPositions
VARIABLES
    anchorValues,           \* the AnchorFunction records of the declarations, in loop order
    handled,                \* anchorValues the loops have gone through
    updaters,               \* the anchorValues autoUpdate was called for
    rootStyle,              \* root.style: indirection key -> text, or undefined
    setCount,               \* per indirection key: root.style.setProperty calls
    resolved,               \* the getPixelValue call that returned last
    updates                 \* autoUpdate callback invocations so far

positionVars == <<anchorValues, handled, updaters, rootStyle, setCount, resolved, updates>>

EmptyMap == [k \in {} |-> Undef]
Put(map, key, val) == [k \in DOMAIN map \cup {key} |-> IF k = key THEN val ELSE map[k]]
Get(map, key, default) == IF key \in DOMAIN map THEN map[key] ELSE default

(***************************************************************************)
(* parseAnchorFn                                                           *)
(***************************************************************************)
NoAnchorFunction ==
    [anchorName |-> Undef, anchorEdge |-> Undef, fallbackValue |-> "",
     customPropName |-> Undef, key |-> "", anchorEl |-> Undef]

\* one iteration of node.children.toArray().forEach((child, idx) => ...)
parseChild(acc, child, idx) ==
    IF acc.foundComma
    THEN [acc EXCEPT !.fallbackValue = @ \o generate(child)]
    ELSE IF child.type = "Operator" /\ child.name = ","
    THEN [acc EXCEPT !.foundComma = TRUE]
    ELSE IF idx = 0
    THEN IF isIdentifier(child)
         THEN [acc EXCEPT !.anchorName = child.name]
         ELSE IF isVarFunction(child) /\ child.arg # ""
         THEN [acc EXCEPT !.customPropName = child.arg]
         ELSE acc
    ELSE IF idx = 1
    THEN IF isIdentifier(child)
         THEN [acc EXCEPT !.anchorEdge = child.name]
         ELSE IF isPercentage(child)
         THEN [acc EXCEPT !.anchorEdge = IF child.name \in Numerals THEN child.name ELSE Undef]
         ELSE acc
    ELSE acc

RECURSIVE parseChildren(_, _, _)
parseChildren(children, idx, acc) ==
    IF idx >= Len(children)
    THEN acc
    ELSE parseChildren(children, idx + 1, parseChild(acc, children[idx + 1], idx))

\* the locals of parseAnchorFn before the loop over the children
parseLocals ==
    [anchorName |-> Undef, anchorEdge |-> Undef, fallbackValue |-> "",
     foundComma |-> FALSE, customPropName |-> Undef]

\* the object parseAnchorFn returns from its locals; id is the value uuid() hands out
anchorFunction(acc, fallbackValue, id) ==
    [anchorName |-> acc.anchorName,
     anchorEdge |-> acc.anchorEdge,
     fallbackValue |-> fallbackValue,
     customPropName |-> acc.customPropName,
     key |-> "--anchor-" \o id,
     anchorEl |-> Undef]

\* a faulty variant: the fallback text is returned as parsed, without the default
fallbackValueAsParsed(acc) == acc.fallbackValue

\* fallbackValue || '0px'
fallbackValueOrDefault(acc) == IF acc.fallbackValue # "" THEN acc.fallbackValue ELSE "0px"

returnAnchorFunction(acc, id) == anchorFunction(acc, fallbackValueOrDefault(acc), id)

parseAnchorFn(node, id) ==
    returnAnchorFunction(parseChildren(node.children, 0, parseLocals), id)

\* the node parseAnchorFn leaves in the tree when replaceCss is set
replacedNode(key) == [type |-> "Raw", name |-> "var", children |-> <<Identifier(key)>>]

(***************************************************************************)
(* The document                                                            *)
(***************************************************************************)
querySelector(sel) == IF sel \in document.elements THEN sel ELSE Null

getCSSPropertyValue(el, prop) == Get(Get(document.computed, el, EmptyMap), prop, "")

\* validate.js: the element the validity collaborator accepts for the target
\* among those the selectors match, or null
validatedForPositioning(targetEl, anchorSelectors) ==
    LET accepted == {i \in 1..Len(document.order) :
                        /\ targetEl # Null
                        /\ document.order[i] \in SeqToSet(anchorSelectors)
                        /\ document.order[i] \in document.elements
                        /\ document.order[i] \in Get(document.valid, targetEl, {})}
    IN  IF accepted = {}
        THEN Null
        ELSE document.order[CHOOSE i \in accepted : \A j \in accepted : i >= j]

\* names is the registry anchorNames at the time of the call
getAnchorEl(targetEl, anchorObj, names) ==
    LET customPropName == anchorObj.customPropName
        anchorName == IF targetEl # Null /\ anchorObj.anchorName = Undef /\ customPropName # Undef
                      THEN getCSSPropertyValue(targetEl, customPropName)
                      ELSE anchorObj.anchorName
        anchorSelectors == IF anchorName # Undef /\ anchorName # ""
                           THEN Get(names, anchorName, <<>>)
                           ELSE <<>>
    IN  validatedForPositioning(targetEl, anchorSelectors)

(***************************************************************************)
(* parseCSS, pass 1: the callback of csstree.walk                          *)
(*                                                                         *)
(* The walk state w carries what the callback reads and writes:            *)
(*   names, props      anchorNames, customPropAssignments                  *)
(*   uuid              uuid() values handed out                            *)
(*   fns               anchorFunctions                                     *)
(*   fbKeys, fbNames   fallbackNames, with the insertion order of its keys *)
(*   fbs               fallbacks                                           *)
(*   changed, ast      of the style source being walked                    *)
(***************************************************************************)
uuid(n) == ToString(n)

TryLiteral(text) == [isFn |-> FALSE, text |-> text, fn |-> NoAnchorFunction]
TryFunction(fn) == [isFn |-> TRUE, text |-> "", fn |-> fn]

\* getAnchorNameData and the registration that follows it
visitAnchorName(node, w) ==
    IF isAnchorNameDeclaration(node) /\ node.value.name # "" /\ node.prelude # ""
    THEN [w EXCEPT !.names = Put(@, node.value.name,
                                 Append(Get(@, node.value.name, <<>>), node.prelude))]
    ELSE w

\* a faulty variant: the assignment drops what the selector held for other properties
assignAnchorFunctionAlone(node, i, w, data) ==
    [w EXCEPT !.fns = Put(@, node.prelude, Put(EmptyMap, node.property, data)),
              !.ast = [@ EXCEPT ![i].value = replacedNode(data.key)],
              !.uuid = @ + 1,
              !.changed = TRUE]

\* getAnchorFunctionData and the assignment to anchorFunctions
\* what the walk does with the data of an anchor() function on an inset property
assignAnchorFunction(node, i, w, data) ==
    [w EXCEPT !.fns = Put(@, node.prelude,
                          Put(Get(@, node.prelude, EmptyMap), node.property, data)),
              !.ast = [@ EXCEPT ![i].value = replacedNode(data.key)],
              !.uuid = @ + 1,
              !.changed = TRUE]

visitAnchorFunction(node, i, w) ==
    IF node.type = "Rule" /\ isAnchorFunction(node.value) /\ node.prelude # ""
    THEN IF startsWithDashes(node.property)
         THEN [w EXCEPT !.props = Put(@, node.property, parseAnchorFn(node.value, uuid(w.uuid + 1))),
                        !.uuid = @ + 1]
         ELSE IF isInset(node.property)
         THEN assignAnchorFunction(node, i, w, parseAnchorFn(node.value, uuid(w.uuid + 1)))
         ELSE w
    ELSE w

\* getPositionFallbackDeclaration and the assignment to fallbackNames
visitFallbackDeclaration(node, w) ==
    IF isFallbackDeclaration(node) /\ node.value.name # "" /\ node.prelude # ""
    THEN [w EXCEPT !.fbKeys = IF node.prelude \in DOMAIN w.fbNames THEN @ ELSE Append(@, node.prelude),
                   !.fbNames = Put(@, node.prelude, node.value.name)]
    ELSE w

\* declarations.forEach of one @try block: acc = [block, uuid]
RECURSIVE parseTryDeclarations(_, _, _)
parseTryDeclarations(declarations, k, acc) ==
    IF k > Len(declarations)
    THEN acc
    ELSE LET child == declarations[k]
         IN  parseTryDeclarations(declarations, k + 1,
                 IF isAnchorFunction(child.value)
                 THEN [block |-> Put(acc.block, child.property,
                                     TryFunction(parseAnchorFn(child.value, uuid(acc.uuid + 1)))),
                       uuid |-> acc.uuid + 1]
                 ELSE [block |-> Put(acc.block, child.property,
                                     TryLiteral(generateValue(child.value))),
                       uuid |-> acc.uuid])

\* tryBlocks.push(tryBlock)
pushTryBlock(blocks, one) == [blocks |-> Append(blocks, one.block), uuid |-> one.uuid]

\* tryAtRules.forEach: acc = [blocks, uuid]
RECURSIVE parseTryAtRules(_, _, _)
parseTryAtRules(tryAtRules, k, acc) ==
    IF k > Len(tryAtRules)
    THEN acc
    ELSE parseTryAtRules(tryAtRules, k + 1,
             pushTryBlock(acc.blocks,
                 parseTryDeclarations(tryAtRules[k], 1, [block |-> EmptyMap, uuid |-> acc.uuid])))

\* getPositionFallbackRules and the assignment to fallbacks
assignFallbacks(node, w, parsed) ==
    IF Len(parsed.blocks) > 0
    THEN [w EXCEPT !.fbs = Put(@, node.prelude, parsed.blocks), !.uuid = parsed.uuid]
    ELSE [w EXCEPT !.uuid = parsed.uuid]

visitFallbackRule(node, w) ==
    IF isFallbackAtRule(node) /\ node.prelude # ""
    THEN assignFallbacks(node, w,
             parseTryAtRules(node.block, 1, [blocks |-> <<>>, uuid |-> w.uuid]))
    ELSE w

visitPass1(node, i, w) ==
    visitFallbackRule(node,
        visitFallbackDeclaration(node,
            visitAnchorFunction(node, i,
                visitAnchorName(node, w))))

RECURSIVE walkPass1(_, _)
walkPass1(i, w) ==
    IF i > Len(w.ast) THEN w ELSE walkPass1(i + 1, visitPass1(w.ast[i], i, w))

(***************************************************************************)
(* Style sources: the css text is the list of its rules together with the  *)
(* author's formatting, which csstree.parse drops and csstree.generate     *)
(* does not restore.                                                       *)
(***************************************************************************)
StyleObj(css, changed) == [css |-> css, changed |-> changed]
CssText(formatted, items) == [formatted |-> formatted, items |-> items]

\* csstree.parse: the rules of the text, without its formatting
getAST(cssText) == cssText.items

\* csstree.generate: a Raw node is written as its text `var(key)`, which is
\* the text of a var() function
generateNode(node) ==
    IF node.type = "Rule" /\ node.value.type = "Raw"
    THEN [node EXCEPT !.value.type = "Function"]
    ELSE node

generateCss(ast) == CssText(FALSE, [i \in 1..Len(ast) |-> generateNode(ast[i])])

\* a faulty variant: the text is regenerated and flagged whether or not it changed
updateCssAlways(styleObj, ast, changed) ==
    StyleObj(generateCss(ast), TRUE)

\* if (changed) { styleObj.css = csstree.generate(ast); styleObj.changed = true }
updateCss(styleObj, ast, changed) ==
    IF changed THEN StyleObj(generateCss(ast), TRUE) ELSE styleObj

\* the end of one iteration over styleData: the style source is updated from the walk
updated(data, n, walked) ==
    [data |-> [data EXCEPT ![n] = updateCss(data[n], walked.ast, walked.changed)],
     w |-> walked]

\* for (const styleObj of styleData) of pass 1: acc = [data, w]
RECURSIVE pass1(_, _)
pass1(n, acc) ==
    IF n > Len(acc.data)
    THEN acc
    ELSE pass1(n + 1,
               updated(acc.data, n,
                   walkPass1(1, [acc.w EXCEPT !.changed = FALSE,
                                              !.ast = getAST(acc.data[n].css)])))

(***************************************************************************)
(* parseCSS, pass 2: where CSS custom properties are used                  *)
(***************************************************************************)
\* const key = `${data.key}-${prop}`
cloneKey(key, prop) == key \o "-" \o prop

visitPass2(node, i, w) ==
    IF /\ node.type = "Rule"
       /\ node.prelude # ""
       /\ isVarFunction(node.value)
       /\ Len(node.value.children) > 0
       /\ isInset(node.property)
       /\ node.value.children[1].name \in DOMAIN w.props
    THEN LET anchorFnData == w.props[node.value.children[1].name]
             key == cloneKey(anchorFnData.key, node.property)
             data == [anchorFnData EXCEPT !.key = key]
         IN  [w EXCEPT !.fns = Put(@, node.prelude,
                                   Put(Get(@, node.prelude, EmptyMap), node.property, data)),
                       !.ast = [@ EXCEPT ![i].value.children[1].name = key],
                       !.changed = TRUE]
    ELSE w

RECURSIVE walkPass2(_, _)
walkPass2(i, w) ==
    IF i > Len(w.ast) THEN w ELSE walkPass2(i + 1, visitPass2(w.ast[i], i, w))

RECURSIVE pass2(_, _)
pass2(n, acc) ==
    IF n > Len(acc.data)
    THEN acc
    ELSE pass2(n + 1,
               updated(acc.data, n,
                   walkPass2(1, [acc.w EXCEPT !.changed = FALSE,
                                              !.ast = getAST(acc.data[n].css)])))

(***************************************************************************)
(* parseCSS, merge: validPositions.  A rule's fallbacks is the array held  *)
(* by fallbacks[name]; rules sharing a name share the array, so the model  *)
(* keeps the arrays by name (blocks) and the name in the rule.             *)
(***************************************************************************)
NoPosition == [declarations |-> EmptyMap, fallbacks |-> Undef]

\* (tryBlock[prop] as AnchorFunction).anchorEl = getAnchorEl(targetEl, value)
bindTryBlock(tryBlock, targetEl, names) ==
    [prop \in DOMAIN tryBlock |->
        IF tryBlock[prop].isFn
        THEN [tryBlock[prop] EXCEPT !.fn.anchorEl = getAnchorEl(targetEl, tryBlock[prop].fn, names)]
        ELSE tryBlock[prop]]

\* a faulty variant: a rule is stored for every position-fallback declaration,
\* whether or not an at-rule of that name was found
RECURSIVE storeFallbacksUnchecked(_, _, _, _, _)
storeFallbacksUnchecked(fbKeys, fbNames, k, names, acc) ==
    IF k > Len(fbKeys)
    THEN acc
    ELSE LET targetSel == fbKeys[k]
             fallbackName == fbNames[targetSel]
             targetEl == querySelector(targetSel)
             positionFallbacks == Get(acc.blocks, fallbackName, <<>>)
         IN  storeFallbacksUnchecked(fbKeys, fbNames, k + 1, names,
                 [valid |-> Put(acc.valid, targetSel,
                                [declarations |-> EmptyMap, fallbacks |-> fallbackName]),
                  blocks |-> Put(acc.blocks, fallbackName,
                                 [b \in 1..Len(positionFallbacks) |->
                                     bindTryBlock(positionFallbacks[b], targetEl, names)])])

\* for (const [targetSel, fallbackName] of Object.entries(fallbackNames))
\* acc = [valid, blocks]
RECURSIVE storeFallbacks(_, _, _, _, _)
storeFallbacks(fbKeys, fbNames, k, names, acc) ==
    IF k > Len(fbKeys)
    THEN acc
    ELSE LET targetSel == fbKeys[k]
             fallbackName == fbNames[targetSel]
         IN  storeFallbacks(fbKeys, fbNames, k + 1, names,
                 IF fallbackName \in DOMAIN acc.blocks
                 THEN LET targetEl == querySelector(targetSel)
                          positionFallbacks == acc.blocks[fallbackName]
                      IN  [valid |-> Put(acc.valid, targetSel,
                                         [declarations |-> EmptyMap, fallbacks |-> fallbackName]),
                           blocks |-> Put(acc.blocks, fallbackName,
                                          [b \in 1..Len(positionFallbacks) |->
                                              bindTryBlock(positionFallbacks[b], targetEl, names)])]
                 ELSE acc)

\* for (const [targetSel, anchorFns] of Object.entries(anchorFunctions))
storeAnchorFns(fns, names, valid) ==
    [targetSel \in DOMAIN valid \cup DOMAIN fns |->
        IF targetSel \in DOMAIN fns
        THEN LET targetEl == querySelector(targetSel)
                 anchorFns == fns[targetSel]
             IN  [Get(valid, targetSel, NoPosition) EXCEPT
                     !.declarations =
                         [targetProperty \in DOMAIN anchorFns |->
                             [anchorFns[targetProperty] EXCEPT
                                 !.anchorEl = getAnchorEl(targetEl, anchorFns[targetProperty], names)]]]
        ELSE valid[targetSel]]

\* parseCSS(styleData) as a whole: the rewritten styleData, the module-level
\* state it leaves, and the rules it returns
\* the state of the walk on entry to parseCSS
walkState(names, props, count) ==
    [names |-> names, props |-> props, uuid |-> count,
     fns |-> EmptyMap, fbKeys |-> <<>>, fbNames |-> EmptyMap, fbs |-> EmptyMap,
     changed |-> FALSE, ast |-> <<>>]

\* if (Object.values(customPropAssignments).length > 0) { pass 2 }
secondPass(p1) == IF DOMAIN p1.w.props # {} THEN pass2(1, p1) ELSE p1

\* validPositions once the fallbacks are stored: the anchor functions are merged in
validPositions(data, w, fb) ==
    [styleData |-> data,
     anchorNames |-> w.names,
     customPropAssignments |-> w.props,
     uuidCount |-> w.uuid,
     tryBlocks |-> fb.blocks,
     rules |-> storeAnchorFns(w.fns, w.names, fb.valid)]

merge(data, w) ==
    validPositions(data, w,
        storeFallbacks(w.fbKeys, w.fbNames, 1, w.names,
                       [valid |-> EmptyMap, blocks |-> w.fbs]))

rulesOf(p2) == merge(p2.data, p2.w)

parseCSS(data, names, props, count) ==
    rulesOf(secondPass(pass1(1, [data |-> data, w |-> walkState(names, props, count)])))

(***************************************************************************)
(* The environment: sample stylesheets and documents                       *)
(***************************************************************************)
\* A rule of a sample is the list of the nodes the walk visits in it, each
\* with the prelude of its rule: one node per declaration.
AnchorA1 == <<Rule("#a1", "anchor-name", Literal("--n"))>>
AnchorA2 == <<Rule("#a2", "anchor-name", Literal("--n"))>>
Positioned == <<Rule("#t2", "position", Literal("absolute"))>>
TopBottom ==
    <<Rule("#t1", "position", Literal("absolute")),
      Rule("#t1", "top", AnchorCall(<<Identifier("--n"), Identifier("bottom")>>))>>
TopUnknown ==
    <<Rule("#t1", "top",
           AnchorCall(<<Identifier("--m"), Identifier("right"), Comma, Dimension("10px")>>))>>
LeftViaProp ==
    <<Rule("#t2", "left", AnchorCall(<<VarChild("--v"), Percentage("50"), Comma>>))>>

CenterProp == <<Rule("#t1", "--c", AnchorCall(<<Identifier("--n"), Percentage("50")>>))>>
LeftCenter1 == <<Rule("#t1", "left", VarCall("--c"))>>
LeftCenter2 == <<Rule("#t2", "left", VarCall("--c"))>>
TopCenter1 == <<Rule("#t1", "top", VarCall("--c"))>>

Fallback1 ==
    <<Rule("#t1", "position", Literal("absolute")),
      Rule("#t1", "position-fallback", Literal("--fb"))>>
Fallback2 ==
    <<Rule("#t2", "anchor-name", Literal("--n")),
      Rule("#t2", "position-fallback", Literal("--fb"))>>
FallbackRule ==
    <<Atrule("position-fallback", "--fb",
        << <<Decl("top", AnchorCall(<<Identifier("--n"), Identifier("top")>>)),
             Decl("width", Literal("35px"))>>,
           <<Decl("left", AnchorCall(<<Identifier("--n"), Identifier("left"), Comma, Dimension("10px")>>))>> >>)>>
FallbackRuleAgain ==
    <<Atrule("position-fallback", "--fb",
        << <<Decl("top", AnchorCall(<<Identifier("--n"), Identifier("bottom")>>))>> >>)>>

\* declarations that come again for the same selector
RightEdge ==
    <<Rule("#t1", "right",
           AnchorCall(<<Identifier("--n"), Identifier("right"), Comma, Dimension("50px")>>))>>
FallbackOther == <<Rule("#t1", "position-fallback", Literal("--other"))>>

Samples == {"anchor-name", "anchor-name-custom-prop", "anchor-custom-props",
            "position-fallback", "position-fallback-unknown", "redeclared",
            "position-fallback-redeclared"}

SampleRules(name) ==
    CASE name = "anchor-name" -> {AnchorA1, AnchorA2, TopBottom, TopUnknown}
      [] name = "anchor-name-custom-prop" -> {AnchorA1, Positioned, TopBottom, LeftViaProp}
      [] name = "anchor-custom-props" -> {CenterProp, LeftCenter1, LeftCenter2, TopCenter1}
      [] name = "position-fallback" -> {AnchorA2, Fallback1, Fallback2, FallbackRule}
      [] name = "position-fallback-unknown" -> {TopBottom, Fallback1, FallbackRule, FallbackRuleAgain}
      [] name = "redeclared" -> {TopBottom, TopUnknown, RightEdge}
      [] name = "position-fallback-redeclared" ->
             {Fallback1, FallbackOther, FallbackRule, FallbackRuleAgain}

\* both targets and both anchors present; #t1 may use either anchor or #t2,
\* and the validity check prefers the later of them; #t2 may use #a1 only
DocumentFull ==
    [elements |-> {"#t1", "#t2", "#a1", "#a2"},
     valid |-> [t \in {"#t1", "#t2"} |-> IF t = "#t1" THEN {"#a1", "#a2", "#t2"} ELSE {"#a1"}],
     order |-> <<"#a1", "#a2", "#t2">>,
     computed |-> [t \in {"#t2"} |-> [p \in {"--v"} |-> "--n"]]]

\* as in the tests: one target, and only the second anchor exists
DocumentSparse ==
    [elements |-> {"#t1", "#a2"},
     valid |-> [t \in {"#t1"} |-> {"#a2"}],
     order |-> <<"#a2">>,
     computed |-> [t \in {"#t1"} |-> [p \in {"--v"} |-> ""]]]

\* the document a sample is written for
SampleDocument(name) ==
    IF name \in {"anchor-custom-props", "position-fallback-unknown"}
    THEN DocumentSparse
    ELSE DocumentFull

(***************************************************************************)
(* Actions of the rewrite pass                                             *)
(***************************************************************************)
InitParse ==
    /\ sample \in Samples
    /\ document = SampleDocument(sample)
    /\ styleData = <<>>
    /\ styleIn = <<>>
    /\ anchorNames = EmptyMap
    /\ customPropAssignments = EmptyMap
    /\ uuidCount = 0
    /\ rules = EmptyMap
    /\ tryBlocks = EmptyMap
    /\ namesIn = EmptyMap
    /\ propsIn = EmptyMap
    /\ calls = 0
    /\ authored = 0
    /\ phase = "authoring"

\* fetchCSS after an edit of the document: fresh records
fetched(data) == [n \in 1..Len(data) |-> StyleObj(data[n].css, FALSE)]

\* the author writes one more rule of the sample, into the last style source or a new one
AddRule(rule, fresh) ==
    /\ authored < MaxRules
    /\ rule \in SampleRules(sample)
    /\ IF fresh
       THEN /\ Len(styleData) < MaxSources
            /\ styleData' = Append(fetched(styleData), StyleObj(CssText(TRUE, rule), FALSE))
       ELSE /\ Len(styleData) > 0
            /\ styleData' = [fetched(styleData) EXCEPT
                                ![Len(styleData)].css =
                                    CssText(TRUE, styleData[Len(styleData)].css.items \o rule)]
    /\ authored' = authored + 1
    /\ phase' = "authoring"
    /\ UNCHANGED <<sample, document, styleIn, anchorNames, customPropAssignments,
                   uuidCount, rules, tryBlocks, namesIn, propsIn, calls>>
    /\ UNCHANGED <<fallbackVars, positionVars>>

\* once the polyfill has run, the author removes the first style source
RemoveSource ==
    /\ phase = "parsed"
    /\ Len(styleData) > 0
    /\ styleData' = fetched(Tail(styleData))
    /\ phase' = "authoring"
    /\ UNCHANGED <<sample, document, styleIn, anchorNames, customPropAssignments,
                   uuidCount, rules, tryBlocks, namesIn, propsIn, calls, authored>>
    /\ UNCHANGED <<fallbackVars, positionVars>>

\* what an invocation of parseCSS leaves behind
returned(result) ==
    /\ styleData' = result.styleData
    /\ anchorNames' = result.anchorNames
    /\ customPropAssignments' = result.customPropAssignments
    /\ uuidCount' = result.uuidCount
    /\ rules' = result.rules
    /\ tryBlocks' = result.tryBlocks

ParseCSS ==
    /\ calls < MaxCalls
    /\ returned(parseCSS(styleData, anchorNames, customPropAssignments, uuidCount))
    /\ styleIn' = styleData
    /\ namesIn' = anchorNames
    /\ propsIn' = customPropAssignments
    /\ calls' = calls + 1
    /\ phase' = "parsed"
    /\ UNCHANGED <<sample, document, authored>>
    /\ UNCHANGED <<fallbackVars, positionVars>>

NextParse ==
    \/ \E rule \in SampleRules(sample), fresh \in BOOLEAN : AddRule(rule, fresh)
    \/ RemoveSource
    \/ ParseCSS


(***************************************************************************)
(* The fallback selector: applyPositionFallbacks and checkOverflow         *)
(***************************************************************************)
MaxTryBlocks == 2        \* try-blocks of the fallback
MaxNotifications == 2    \* invocations of the autoUpdate callback

\* the elements querySelectorAll(targetSel) returns, in document order
Targets == <<"#e1", "#e2">>
TargetSet == SeqToSet(Targets)

Orders == {"normal", "most-width", "most-height", "most-block-size", "most-inline-size"}

\* what one measurement can observe: the overflow of the four sides and the client box
Layout(top, right, bottom, left) ==
    [top |-> top, right |-> right, bottom |-> bottom, left |-> left,
     clientHeight |-> 3, clientWidth |-> 3]

Layouts == {Layout(0, 0, 0, 0), Layout(1, -1, 0, 0), Layout(-1, 2, -1, 0)}

NoEval == [target |-> Undef, how |-> "none", results |-> {}, applied |-> <<>>, marker |-> Undef]

\* a faulty variant: a side that touches the edge counts as overflowing
everySideBelowZero(overflow) ==
    /\ overflow.top < 0
    /\ overflow.right < 0
    /\ overflow.bottom < 0
    /\ overflow.left < 0

\* Object.values(overflow).every((side) => side <= 0)
everySideFits(overflow) ==
    /\ overflow.top <= 0
    /\ overflow.right <= 0
    /\ overflow.bottom <= 0
    /\ overflow.left <= 0

max0(n) == IF n > 0 THEN n ELSE 0

\* the visible size recorded for one try-block
visible(overflow) ==
    [height |-> overflow.clientHeight - max0(overflow.top) - max0(overflow.bottom),
     width |-> overflow.clientWidth - max0(overflow.left) - max0(overflow.right)]

sorter(ord) == IF ord \in {"most-height", "most-block-size"} THEN "height" ELSE "width"

\* a faulty variant: a sort that puts an element in front of its equals
insertSortedBeforeEquals(x, sorted, key) ==
    LET before == {i \in 1..Len(sorted) : sorted[i].visible[key] > x.visible[key]}
        n == IF before = {} THEN 0 ELSE CHOOSE i \in before : \A j \in before : j <= i
    IN  SubSeq(sorted, 1, n) \o <<x>> \o SubSeq(sorted, n + 1, Len(sorted))

\* Array.prototype.sort with (a, b) => b.visible[sorter] - a.visible[sorter]: stable
insertSorted(x, sorted, key) ==
    LET before == {i \in 1..Len(sorted) : sorted[i].visible[key] >= x.visible[key]}
        n == IF before = {} THEN 0 ELSE CHOOSE i \in before : \A j \in before : j <= i
    IN  SubSeq(sorted, 1, n) \o <<x>> \o SubSeq(sorted, n + 1, Len(sorted))

RECURSIVE sortVisibleArea(_, _, _, _)
sortVisibleArea(area, i, key, sorted) ==
    IF i > Len(area)
    THEN sorted
    ELSE sortVisibleArea(area, i + 1, key, insertSorted(area[i], sorted, key))

\* one measurement of an evaluation: the block measured (0 is the default box), what the
\* layout oracle returned and the marker the target carried
Result(block, overflow, under) ==
    [block |-> block, overflow |-> overflow, under |-> under]

\* a callback invocation suspended at an await
Running(pc, index, pending, results, applied) ==
    [pc |-> pc, index |-> index, pending |-> pending, results |-> results,
     applied |-> applied]

Ended(t, how, results, applied, attr) ==
    [target |-> t, how |-> how, results |-> results, applied |-> applied, marker |-> attr]

RemoveAt(s, e) == SubSeq(s, 1, e - 1) \o SubSeq(s, e + 1, Len(s))

InitFallback ==
    /\ fallbacks \in {[i \in 1..n |-> "try-" \o ToString(i)] : n \in 0..MaxTryBlocks}
    /\ order \in Orders
    /\ subscribed = {}
    /\ cleanups = {}
    /\ checking = [t \in TargetSet |-> FALSE]
    /\ marker = [t \in TargetSet |-> Undef]
    /\ evals = [t \in TargetSet |-> <<>>]
    /\ last = NoEval
    /\ notified = 0
    /\ dropped = [t \in TargetSet |-> 0]

\* the loop over the targets: autoUpdate subscribes the next target
AutoUpdate(t) ==
    /\ Len(fallbacks) > 0
    /\ t \notin subscribed
    /\ \E i \in 1..Len(Targets) :
          /\ Targets[i] = t
          /\ \A j \in 1..(i - 1) : Targets[j] \in subscribed
    /\ subscribed' = subscribed \cup {t}
    /\ cleanups' = cleanups      \* the function autoUpdate returns is not kept
    /\ UNCHANGED <<fallbacks, order, checking, marker, evals, last, notified, dropped>>
    /\ UNCHANGED <<parseVars, positionVars>>

\* the end of a callback invocation
endEvaluation(t, e, how, results, applied, attr) ==
    /\ evals' = [evals EXCEPT ![t] = RemoveAt(evals[t], e)]
    /\ last' = Ended(t, how, results, applied, attr)

\* a layout-change notification that is delivered whatever the busy flag says
NotifyUnguarded(t) ==
    /\ t \in subscribed
    /\ notified < MaxNotifications
    /\ notified' = notified + 1
    /\ checking' = [checking EXCEPT ![t] = TRUE]
    /\ marker' = [marker EXCEPT ![t] = Undef]
    /\ evals' = [evals EXCEPT ![t] = Append(evals[t], Running("default", 0, {}, {}, <<>>))]
    /\ last' = NoEval
    /\ UNCHANGED <<fallbacks, order, cleanups, subscribed, dropped>>
    /\ UNCHANGED <<parseVars, positionVars>>

\* a faulty variant: one busy flag for all the targets of the selector
NotifyShared(t) ==
    /\ t \in subscribed
    /\ notified < MaxNotifications
    /\ notified' = notified + 1
    /\ IF \E u \in TargetSet : checking[u]
       THEN /\ dropped' = [dropped EXCEPT ![t] = dropped[t] + 1]
            /\ UNCHANGED <<checking, marker, evals, last>>
       ELSE /\ checking' = [checking EXCEPT ![t] = TRUE]
            /\ marker' = [marker EXCEPT ![t] = Undef]
            /\ evals' = [evals EXCEPT ![t] =
                            Append(evals[t], Running("default", 0, {}, {}, <<>>))]
            /\ last' = NoEval
            /\ UNCHANGED dropped
    /\ UNCHANGED <<fallbacks, order, cleanups, subscribed>>
    /\ UNCHANGED <<parseVars, positionVars>>

\* autoUpdate invokes the callback: the code up to the first await
Notify(t) ==
    /\ t \in subscribed
    /\ notified < MaxNotifications
    /\ notified' = notified + 1
    /\ IF checking[t]
       THEN /\ dropped' = [dropped EXCEPT ![t] = dropped[t] + 1]
            /\ UNCHANGED <<checking, marker, evals, last>>
       ELSE /\ checking' = [checking EXCEPT ![t] = TRUE]
            /\ marker' = [marker EXCEPT ![t] = Undef]
            /\ evals' = [evals EXCEPT ![t] =
                            Append(evals[t], Running("default", 0, {}, {}, <<>>))]
            /\ last' = NoEval
            /\ UNCHANGED dropped
    /\ UNCHANGED <<fallbacks, order, cleanups, subscribed>>
    /\ UNCHANGED <<parseVars, positionVars>>

\* the measurement of the default box resolves
MeasureDefault(t, e, overflow) ==
    /\ e \in 1..Len(evals[t])
    /\ evals[t][e].pc = "default"
    /\ LET results == evals[t][e].results \cup {Result(0, overflow, marker[t])}
           n == Len(fallbacks)
       IN  IF everySideFits(overflow)
           THEN /\ checking' = [checking EXCEPT ![t] = FALSE]
                /\ endEvaluation(t, e, "default-fits", results, <<>>, marker[t])
                /\ UNCHANGED marker
           ELSE IF order = "normal"
           THEN /\ marker' = [marker EXCEPT ![t] = fallbacks[1]]
                /\ evals' = [evals EXCEPT ![t][e] =
                                Running("try", 1, {}, results, <<fallbacks[1]>>)]
                /\ UNCHANGED <<checking, last>>
           ELSE /\ marker' = [marker EXCEPT ![t] = fallbacks[n]]
                /\ evals' = [evals EXCEPT ![t][e] =
                                Running("all", 0, 1..n, results, fallbacks)]
                /\ UNCHANGED <<checking, last>>
    /\ UNCHANGED <<fallbacks, order, cleanups, subscribed, notified, dropped>>
    /\ UNCHANGED <<parseVars, positionVars>>

\* a faulty variant: the loop of the normal order starts over at the first try-block when
\* the last one overflows
MeasureTryAgain(t, e, overflow) ==
    /\ e \in 1..Len(evals[t])
    /\ evals[t][e].pc = "try"
    /\ LET index == evals[t][e].index
           results == evals[t][e].results \cup {Result(index, overflow, marker[t])}
           applied == evals[t][e].applied
           next == IF index = Len(fallbacks) THEN 1 ELSE index + 1
       IN  IF everySideFits(overflow)
           THEN /\ checking' = [checking EXCEPT ![t] = FALSE]
                /\ endEvaluation(t, e, "try-fits", results, applied, marker[t])
                /\ UNCHANGED marker
           ELSE /\ marker' = [marker EXCEPT ![t] = fallbacks[next]]
                /\ evals' = [evals EXCEPT ![t][e] =
                                Running("try", next, {}, results, <<fallbacks[next]>>)]
                /\ UNCHANGED <<checking, last>>
    /\ UNCHANGED <<fallbacks, order, cleanups, subscribed, notified, dropped>>
    /\ UNCHANGED <<parseVars, positionVars>>

\* the loop of the normal order when it never reverts to the base style
MeasureTryNoRevert(t, e, overflow) ==
    /\ e \in 1..Len(evals[t])
    /\ evals[t][e].pc = "try"
    /\ LET index == evals[t][e].index
           results == evals[t][e].results \cup {Result(index, overflow, marker[t])}
           applied == evals[t][e].applied
       IN  IF everySideFits(overflow) \/ index = Len(fallbacks)
           THEN /\ checking' = [checking EXCEPT ![t] = FALSE]
                /\ endEvaluation(t, e, "try-fits", results, applied, marker[t])
                /\ UNCHANGED marker
           ELSE /\ marker' = [marker EXCEPT ![t] = fallbacks[index + 1]]
                /\ evals' = [evals EXCEPT ![t][e] =
                                Running("try", index + 1, {}, results,
                                        Append(applied, fallbacks[index + 1]))]
                /\ UNCHANGED <<checking, last>>
    /\ UNCHANGED <<fallbacks, order, cleanups, subscribed, notified, dropped>>
    /\ UNCHANGED <<parseVars, positionVars>>

\* normal order: the measurement of the applied try-block resolves
MeasureTry(t, e, overflow) ==
    /\ e \in 1..Len(evals[t])
    /\ evals[t][e].pc = "try"
    /\ LET index == evals[t][e].index
           results == evals[t][e].results \cup {Result(index, overflow, marker[t])}
           applied == evals[t][e].applied
       IN  IF everySideFits(overflow)
           THEN /\ checking' = [checking EXCEPT ![t] = FALSE]
                /\ endEvaluation(t, e, "try-fits", results, applied, marker[t])
                /\ UNCHANGED marker
           ELSE IF index = Len(fallbacks)
           THEN /\ checking' = [checking EXCEPT ![t] = FALSE]
                /\ marker' = [marker EXCEPT ![t] = Undef]
                /\ endEvaluation(t, e, "none-fits", results, applied, Undef)
           ELSE /\ marker' = [marker EXCEPT ![t] = fallbacks[index + 1]]
                /\ evals' = [evals EXCEPT ![t][e] =
                                Running("try", index + 1, {}, results,
                                        Append(applied, fallbacks[index + 1]))]
                /\ UNCHANGED <<checking, last>>
    /\ UNCHANGED <<fallbacks, order, cleanups, subscribed, notified, dropped>>
    /\ UNCHANGED <<parseVars, positionVars>>

\* the overflow an evaluation recorded for a try-block
overflowOf(results, block) ==
    (CHOOSE r \in results : r.block = block).overflow

\* most-* order: one of the pending measurements resolves; the last one resumes the callback
MeasureAll(t, e, i, overflow) ==
    /\ e \in 1..Len(evals[t])
    /\ evals[t][e].pc = "all"
    /\ i \in evals[t][e].pending
    /\ LET results == evals[t][e].results \cup {Result(i, overflow, marker[t])}
           pending == evals[t][e].pending \ {i}
           applied == evals[t][e].applied
           visibleArea == [b \in 1..Len(fallbacks) |->
                             [uuid |-> fallbacks[b],
                              visible |-> visible(overflowOf(results, b))]]
           sorted == sortVisibleArea(visibleArea, 1, sorter(order), <<>>)
       IN  IF pending # {}
           THEN /\ evals' = [evals EXCEPT ![t][e] =
                                Running("all", 0, pending, results, applied)]
                /\ UNCHANGED <<checking, marker, last>>
           ELSE /\ marker' = [marker EXCEPT ![t] = sorted[1].uuid]
                /\ checking' = [checking EXCEPT ![t] = FALSE]
                /\ endEvaluation(t, e, "most", results, Append(applied, sorted[1].uuid),
                                 sorted[1].uuid)
    /\ UNCHANGED <<fallbacks, order, cleanups, subscribed, notified, dropped>>
    /\ UNCHANGED <<parseVars, positionVars>>

\* an awaited measurement rejects: the callback ends where it stands
MeasureFails(t, e) ==
    /\ e \in 1..Len(evals[t])
    /\ endEvaluation(t, e, "failed", evals[t][e].results, evals[t][e].applied, marker[t])
    /\ UNCHANGED <<fallbacks, order, cleanups, subscribed, checking, marker, notified,
                   dropped>>
    /\ UNCHANGED <<parseVars, positionVars>>

NextFallback ==
    \/ \E t \in TargetSet : AutoUpdate(t)
    \/ \E t \in TargetSet : Notify(t)
    \/ \E t \in TargetSet, e \in 1..MaxNotifications, overflow \in Layouts :
          MeasureDefault(t, e, overflow)
    \/ \E t \in TargetSet, e \in 1..MaxNotifications, overflow \in Layouts :
          MeasureTry(t, e, overflow)
    \/ \E t \in TargetSet, e \in 1..MaxNotifications, i \in 1..MaxTryBlocks,
          overflow \in Layouts : MeasureAll(t, e, i, overflow)
    \/ \E t \in TargetSet, e \in 1..MaxNotifications : MeasureFails(t, e)

(***************************************************************************)
(* The pixel resolver: getPixelValue and resolveLogicalSideKeyword         *)
(***************************************************************************)
MaxRefs == 2             \* anchorValues of the declarations
MaxUpdates == 2          \* invocations of the autoUpdate callbacks

\* an optional value that is not a string: absent, or present
None == <<>>
Some(v) == <<v>>

\* AnchorSide is a keyword or a number; a number is written as its numeral
NumberOf(numeral) ==
    CASE numeral = "0" -> 0
      [] numeral = "25" -> 25
      [] numeral = "50" -> 50
      [] numeral = "100" -> 100

\* typeof side === 'number' && !Number.isNaN(side)
isNumber(side) == side \in Numerals

\* the percentage the switch assigns before the writing direction is looked at
percentageOf(side) ==
    IF side \in {"start", "self-start"} THEN Some(0)
    ELSE IF side \in {"end", "self-end"} THEN Some(100)
    ELSE IF isNumber(side) THEN Some(NumberOf(side))
    ELSE None

\* a faulty variant: the writing direction is ignored
resolveLogicalSideKeywordNoFlip(side, rtl) == percentageOf(side)

resolveLogicalSideKeyword(side, rtl) ==
    IF percentageOf(side) # None
    THEN Some(IF rtl THEN 100 - percentageOf(side)[1] ELSE percentageOf(side)[1])
    ELSE None

resolveLogicalSizeKeyword(size, vertical) ==
    IF size \in {"block", "self-block"} THEN (IF vertical THEN "width" ELSE "height")
    ELSE IF size \in {"inline", "self-inline"} THEN (IF vertical THEN "height" ELSE "width")
    ELSE Undef

getAxis(position) ==
    IF position \in {"top", "bottom"} THEN "y"
    ELSE IF position \in {"left", "right"} THEN "x"
    ELSE Null

getAxisProperty(axis) ==
    IF axis = "x" THEN "width"
    ELSE IF axis = "y" THEN "height"
    ELSE Null

\* the property families of parse.js
SizingProperties == {"width", "height", "min-width", "min-height", "max-width", "max-height"}
isInsetProp(property) == property \in InsetProperties
isSizingProp(property) == property \in SizingProperties

\* an element as the resolver reads it: client and offset box, display, summed borders
Element(clientWidth, clientHeight, offsetWidth, offsetHeight, display, borders) ==
    [clientWidth |-> clientWidth, clientHeight |-> clientHeight,
     offsetWidth |-> offsetWidth, offsetHeight |-> offsetHeight,
     display |-> display, borders |-> borders]

isInline(el) == el.display = "inline"
getBorders(el, axis) == el.borders[axis]

Rect(x, y, width, height) == [x |-> x, y |-> y, width |-> width, height |-> height]

\* `${value}px`: numbers are carried in hundredths, so that the text of a fraction
\* (12.5, 0.25) is computed rather than rounded away
fractionText(f) ==
    IF f = 0 THEN ""
    ELSE IF f % 10 = 0 THEN "." \o ToString(f \div 10)
    ELSE IF f < 10 THEN ".0" \o ToString(f)
    ELSE "." \o ToString(f)
numberText(v) ==
    IF v < 0
    THEN "-" \o ToString((0 - v) \div 100) \o fractionText((0 - v) % 100)
    ELSE ToString(v \div 100) \o fractionText(v % 100)
pixels(v) == numberText(v) \o "px"

\* the options of one getPixelValue call
GetPixelValueOpts(targetEl, targetProperty, anchorRect, anchorSide, anchorSize, fallback) ==
    [targetEl |-> targetEl, targetProperty |-> targetProperty, anchorRect |-> anchorRect,
     anchorSide |-> anchorSide, anchorSize |-> anchorSize, fallback |-> fallback]

\* what the platform answers during one call: isRTL, the writing-mode, the offsetParent
Platform(rtl, writingMode, offsetParent) ==
    [rtl |-> rtl, writingMode |-> writingMode, offsetParent |-> offsetParent]

\* writingMode.startsWith('vertical-') || writingMode.startsWith('sideways-')
isVertical(writingMode) ==
    writingMode \in {"vertical-rl", "vertical-lr", "sideways-rl", "sideways-lr"}

\* the anchor-size() branch
sizeOf(anchorSize, writingMode) ==
    IF anchorSize \in {"width", "height"}
    THEN anchorSize
    ELSE resolveLogicalSizeKeyword(anchorSize, isVertical(writingMode))

sizeValue(opts, platform) ==
    IF ~isSizingProp(opts.targetProperty)
    THEN opts.fallback
    ELSE IF sizeOf(opts.anchorSize, platform.writingMode) # Undef
    THEN pixels(100 * opts.anchorRect[1][sizeOf(opts.anchorSize, platform.writingMode)])
    ELSE opts.fallback

\* switch (anchorSide): the percentage of the side
sidePercentage(anchorSide, rtl) ==
    IF anchorSide = "left" THEN Some(0)
    ELSE IF anchorSide = "right" THEN Some(100)
    ELSE IF anchorSide = "top" THEN Some(0)
    ELSE IF anchorSide = "bottom" THEN Some(100)
    ELSE IF anchorSide = "center" THEN Some(50)
    ELSE resolveLogicalSideKeyword(anchorSide, rtl)

\* the size of the offsetParent a bottom / right inset is measured from
farEdge(client, offset, offsetParent, axis) ==
    IF client = 0 /\ isInline(offsetParent)
    THEN offset - getBorders(offsetParent, axis)
    ELSE client

\* a faulty variant: the offset is clipped to the anchor's box origin
offsetValueClipped(targetProperty, axis, dir, anchorRect, percentage, offsetParent) ==
    100 * anchorRect[axis]

\* value, in hundredths: anchorRect[axis] + anchorRect[dir] * (percentage / 100), turned
\* into a distance from the far edge for bottom and right
offsetValue(targetProperty, axis, dir, anchorRect, percentage, offsetParent) ==
    IF targetProperty = "bottom"
    THEN 100 * farEdge(offsetParent.clientHeight, offsetParent.offsetHeight,
                       offsetParent, axis)
             - (100 * anchorRect[axis] + anchorRect[dir] * percentage)
    ELSE IF targetProperty = "right"
    THEN 100 * farEdge(offsetParent.clientWidth, offsetParent.offsetWidth,
                       offsetParent, axis)
             - (100 * anchorRect[axis] + anchorRect[dir] * percentage)
    ELSE 100 * anchorRect[axis] + anchorRect[dir] * percentage

\* the axis check of the anchor() branch
sideAllowed(targetProperty, anchorSide) ==
    /\ isInsetProp(targetProperty)
    /\ getAxis(targetProperty) # Null
    /\ (~isInsetProp(anchorSide) \/ getAxis(targetProperty) = getAxis(anchorSide))

\* a faulty variant: a side is taken whatever its axis
sideValueAnyAxis(opts, platform) ==
    IF sidePercentage(opts.anchorSide, platform.rtl) # None
       /\ getAxisProperty(getAxis(opts.targetProperty)) # Null
    THEN pixels(offsetValue(opts.targetProperty, getAxis(opts.targetProperty),
                            getAxisProperty(getAxis(opts.targetProperty)),
                            opts.anchorRect[1],
                            sidePercentage(opts.anchorSide, platform.rtl)[1],
                            platform.offsetParent))
    ELSE opts.fallback

\* the anchor() branch
sideValue(opts, platform) ==
    IF ~sideAllowed(opts.targetProperty, opts.anchorSide)
    THEN opts.fallback
    ELSE IF sidePercentage(opts.anchorSide, platform.rtl) # None
            /\ getAxisProperty(getAxis(opts.targetProperty)) # Null
    THEN pixels(offsetValue(opts.targetProperty, getAxis(opts.targetProperty),
                            getAxisProperty(getAxis(opts.targetProperty)),
                            opts.anchorRect[1],
                            sidePercentage(opts.anchorSide, platform.rtl)[1],
                            platform.offsetParent))
    ELSE opts.fallback

\* a faulty variant: a reference that cannot be resolved counts as zero
getPixelValueZero(opts, platform) ==
    IF ~((opts.anchorSize # Undef \/ opts.anchorSide # Undef)
         /\ opts.targetEl # Undef
         /\ opts.anchorRect # None)
    THEN "0px"
    ELSE IF opts.anchorSize # Undef
    THEN sizeValue(opts, platform)
    ELSE sideValue(opts, platform)

getPixelValue(opts, platform) ==
    IF ~((opts.anchorSize # Undef \/ opts.anchorSide # Undef)
         /\ opts.targetEl # Undef
         /\ opts.anchorRect # None)
    THEN opts.fallback
    ELSE IF opts.anchorSize # Undef
    THEN sizeValue(opts, platform)
    ELSE IF opts.anchorSide # Undef
    THEN sideValue(opts, platform)
    ELSE opts.fallback

(***************************************************************************)
(* applyAnchorPositions                                                    *)
(***************************************************************************)
\* one entry of the declarations: the AnchorFunction and the property it is listed under
AnchorValue(property, side, size, fallbackValue, id, anchorEl, targetEl) ==
    [property |-> property, anchorSide |-> side, anchorSize |-> size,
     fallbackValue |-> fallbackValue, uuid |-> id, anchorEl |-> anchorEl,
     targetEl |-> targetEl]

\* the values the declarations of a run are drawn from
\* <<anchorSide, anchorSize>>: the side keywords, a percentage and NaN; three size
\* keywords; neither
Queries ==
    {<<side, Undef>> : side \in {"top", "left", "right", "bottom", "start", "end",
                                 "self-start", "self-end", "center", "25", "NaN"}}
        \cup {<<Undef, size>> : size \in {"width", "block", "self-inline"}}
        \cup {<<Undef, Undef>>}

AnchorValuesAt(i) ==
    {AnchorValue(property, query[1], query[2], "50%", "--anchor-" \o ToString(i),
                 anchorEl, targetEl) :
        property \in {"top", "left", "bottom", "right", "width"}, query \in Queries,
        anchorEl \in {Null, "#anchor"}, targetEl \in {Null, "#target"}}

\* the entries behind the first one are drawn from a few: a resolvable side, a
\* resolvable size, a side on the wrong axis and a reference without anchor element
FurtherValues ==
    {AnchorValue("left", "end", Undef, "0px", "", "#anchor", "#target"),
     AnchorValue("width", Undef, "width", "0px", "", "#anchor", "#target"),
     AnchorValue("top", "left", Undef, "10px", "", "#anchor", "#target"),
     AnchorValue("bottom", "top", Undef, "10px", "", Null, "#target")}
FurtherValue(anchorValue, i) == [anchorValue EXCEPT !.uuid = "--anchor-" \o ToString(i)]

Uuids == {"--anchor-" \o ToString(i) : i \in 1..MaxRefs}

\* what the platform can answer
Rects == {Rect(2, 7, 5, 20), Rect(-3, 0, 10, 8)}
Platforms ==
    {Platform(rtl, writingMode, offsetParent) :
        rtl \in BOOLEAN, writingMode \in {"horizontal-tb", "vertical-rl"},
        offsetParent \in {Element(40, 30, 44, 34, "block", [x |-> 4, y |-> 4]),
                          Element(0, 0, 44, 34, "inline", [x |-> 4, y |-> 4])}}

\* a getPixelValue call that has returned
Call(i, opts, rtl, value) ==
    [index |-> i, targetEl |-> opts.targetEl, anchorRect |-> opts.anchorRect,
     rtl |-> rtl, value |-> value]

NoCall == [index |-> 0, targetEl |-> Undef, anchorRect |-> None, rtl |-> FALSE, value |-> Undef]

InitPosition ==
    /\ anchorValues \in {<<first>> \o [i \in 1..Len(rest) |-> FurtherValue(rest[i], i + 1)] :
                            first \in AnchorValuesAt(1),
                            rest \in UNION {[1..n -> FurtherValues] : n \in 0..(MaxRefs - 1)}}
    /\ handled = 0
    /\ updaters = {}
    /\ rootStyle = [id \in Uuids |-> Undef]
    /\ setCount = [id \in Uuids |-> 0]
    /\ resolved = NoCall
    /\ updates = 0

\* root.style.setProperty(anchorValue.uuid, resolved) behind a getPixelValue call
setProperty(i, opts, rtl, value) ==
    /\ resolved' = Call(i, opts, rtl, value)
    /\ rootStyle' = [rootStyle EXCEPT ![anchorValues[i].uuid] = value]
    /\ setCount' = [setCount EXCEPT ![anchorValues[i].uuid] = @ + 1]

\* the call of the else branch: no targetEl and no anchorRect are passed
withoutElements(anchorValue) ==
    GetPixelValueOpts(Undef, anchorValue.property, None, anchorValue.anchorSide,
                      anchorValue.anchorSize, anchorValue.fallbackValue)

\* the call of the autoUpdate callback
withElements(anchorValue, rect) ==
    GetPixelValueOpts(anchorValue.targetEl, anchorValue.property, Some(rect),
                      anchorValue.anchorSide, anchorValue.anchorSize,
                      anchorValue.fallbackValue)

\* one round of the loops over the declarations; the call of the else branch returns
\* before the platform is asked anything
ApplyAnchorPosition ==
    /\ handled < Len(anchorValues)
    /\ handled' = handled + 1
    /\ IF anchorValues[handled + 1].anchorEl # Null /\ anchorValues[handled + 1].targetEl # Null
       THEN /\ updaters' = updaters \cup {handled + 1}
            /\ UNCHANGED <<rootStyle, setCount, resolved>>
       ELSE /\ setProperty(handled + 1, withoutElements(anchorValues[handled + 1]), FALSE,
                           getPixelValue(withoutElements(anchorValues[handled + 1]),
                                         CHOOSE platform \in Platforms : TRUE))
            /\ UNCHANGED updaters
    /\ UNCHANGED <<anchorValues, updates>>
    /\ UNCHANGED <<parseVars, fallbackVars>>

\* autoUpdate invokes the callback of an anchorValue: getElementRects, getPixelValue,
\* setProperty
Update(i, rect, platform) ==
    /\ i \in updaters
    /\ updates < MaxUpdates
    /\ updates' = updates + 1
    /\ setProperty(i, withElements(anchorValues[i], rect), platform.rtl,
                   getPixelValue(withElements(anchorValues[i], rect), platform))
    /\ UNCHANGED <<anchorValues, handled, updaters>>
    /\ UNCHANGED <<parseVars, fallbackVars>>

NextPosition ==
    \/ ApplyAnchorPosition
    \/ \E i \in 1..MaxRefs, rect \in Rects, platform \in Platforms : Update(i, rect, platform)

\* the state of the part of the program a specification leaves alone
IdleParse ==
    /\ sample = "anchor-name"
    /\ document = SampleDocument(sample)
    /\ styleData = <<>>
    /\ styleIn = <<>>
    /\ anchorNames = EmptyMap
    /\ customPropAssignments = EmptyMap
    /\ uuidCount = 0
    /\ rules = EmptyMap
    /\ tryBlocks = EmptyMap
    /\ namesIn = EmptyMap
    /\ propsIn = EmptyMap
    /\ calls = 0
    /\ authored = 0
    /\ phase = "authoring"

IdleFallback ==
    /\ fallbacks = <<>>
    /\ order = "normal"
    /\ subscribed = {}
    /\ cleanups = {}
    /\ checking = [t \in TargetSet |-> FALSE]
    /\ marker = [t \in TargetSet |-> Undef]
    /\ evals = [t \in TargetSet |-> <<>>]
    /\ last = NoEval
    /\ notified = 0
    /\ dropped = [t \in TargetSet |-> 0]

IdlePosition ==
    /\ anchorValues = <<>>
    /\ handled = 0
    /\ updaters = {}
    /\ rootStyle = [id \in Uuids |-> Undef]
    /\ setCount = [id \in Uuids |-> 0]
    /\ resolved = NoCall
    /\ updates = 0

vars == <<parseVars, fallbackVars, positionVars>>

Init == InitParse /\ IdleFallback /\ IdlePosition
Next == NextParse
Spec == Init /\ [][Next]_vars

InitSelector == InitFallback /\ IdleParse /\ IdlePosition
SpecFallback == InitSelector /\ [][NextFallback]_vars

InitResolver == InitPosition /\ IdleParse /\ IdleFallback
SpecPosition == InitResolver /\ [][NextPosition]_vars

(***************************************************************************)
(* Vocabulary of the properties of the rewrite pass                        *)
(***************************************************************************)
Parsed == phase = "parsed"

\* positions <<n, i>> of the nodes of a styleData array
Nodes(data) == {<<n, i>> \in (1..Len(data)) \X (1..12) : i <= Len(data[n].css.items)}
NodeAt(data, pos) == data[pos[1]].css.items[pos[2]]

IsAnchorSyntax(node) ==
    \/ isAnchorNameDeclaration(node)
    \/ node.type = "Rule" /\ isAnchorFunction(node.value)
    \/ isFallbackDeclaration(node)
    \/ isFallbackAtRule(node)

NoAnchorSyntax(data) == \A pos \in Nodes(data) : ~IsAnchorSyntax(NodeAt(data, pos))

\* C1: whenever no source of the input contains anchor-related syntax
\* (anchor-name, anchor(), position-fallback declaration or at-rule), parseCSS
\* returns the empty rule model and leaves every source's css and changed flag
\* as on entry.  The code breaks this once an earlier invocation has left an
\* entry in customPropAssignments (see C5).
C1_NoAnchorSyntaxNoEffect ==
    (Parsed /\ NoAnchorSyntax(styleIn)) => (DOMAIN rules = {} /\ styleData = styleIn)

\* C5: at the start of every parseCSS invocation anchorNames and
\* customPropAssignments hold no entry of an earlier invocation.
C5_RegistriesFreshOnEntry ==
    Parsed => (DOMAIN namesIn = {} /\ DOMAIN propsIn = {})

(***************************************************************************)
(* C2: anchor() with an unknown anchor name                                *)
(***************************************************************************)
\* the anchor() calls of the input that are the value of an inset property
DirectCalls ==
    {pos \in Nodes(styleIn) :
        /\ NodeAt(styleIn, pos).type = "Rule"
        /\ isAnchorFunction(NodeAt(styleIn, pos).value)
        /\ isInset(NodeAt(styleIn, pos).property)}

\* the anchor name a call refers to for the element of selector sel: its
\* first argument, or the value of the custom property named there
CallName(call, sel) ==
    IF Len(call.children) = 0 THEN Undef
    ELSE IF call.children[1].type = "Identifier" THEN call.children[1].name
    ELSE IF call.children[1].type = "Function" /\ querySelector(sel) # Null
    THEN getCSSPropertyValue(querySelector(sel), call.children[1].arg)
    ELSE Undef

RECURSIVE TextOf(_)
TextOf(children) ==
    IF children = <<>> THEN "" ELSE generate(Head(children)) \o TextOf(Tail(children))

\* the text after the first comma of a call, "" when there is none
FallbackClause(call) ==
    LET commas == {i \in 1..Len(call.children) : call.children[i] = Comma}
    IN  IF commas = {}
        THEN ""
        ELSE TextOf(SubSeq(call.children,
                           (CHOOSE i \in commas : \A j \in commas : i <= j) + 1,
                           Len(call.children)))

\* the reference of the returned rules that was parsed from the call at pos:
\* the one in the call's slot that carries the key written in the call's place
RefOfCall(pos) ==
    LET node == NodeAt(styleIn, pos)
    IN  rules[node.prelude].declarations[node.property]

IsRefOfCall(pos) ==
    LET node == NodeAt(styleIn, pos)
    IN  /\ node.prelude \in DOMAIN rules
        /\ node.property \in DOMAIN rules[node.prelude].declarations
        /\ RefOfCall(pos).key = NodeAt(styleData, pos).value.children[1].name

\* C2: every reference parsed from an anchor() call on an inset property whose
\* anchor name has no entry in anchorNames has anchorEl null, and its
\* fallbackValue is "0px" when the call has no text after a comma and that
\* text otherwise.
C2_UnknownAnchorName ==
    Parsed =>
        \A pos \in DirectCalls :
            LET node == NodeAt(styleIn, pos)
            IN  (IsRefOfCall(pos) /\ CallName(node.value, node.prelude) \notin DOMAIN anchorNames)
                => /\ RefOfCall(pos).anchorEl = Null
                   /\ RefOfCall(pos).fallbackValue =
                          IF FallbackClause(node.value) = "" THEN "0px"
                          ELSE FallbackClause(node.value)

\* an existing target refers to an undeclared anchor name without a fallback
\* clause, and its reference carries null and "0px"
C2_Witness ==
    /\ Parsed
    /\ \E pos \in DirectCalls :
          LET node == NodeAt(styleIn, pos)
          IN  /\ IsRefOfCall(pos)
              /\ querySelector(node.prelude) # Null
              /\ CallName(node.value, node.prelude) \notin DOMAIN anchorNames
              /\ FallbackClause(node.value) = ""
              /\ RefOfCall(pos).anchorEl = Null
              /\ RefOfCall(pos).fallbackValue = "0px"

(***************************************************************************)
(* C6: a second run over rewritten text                                    *)
(***************************************************************************)
\* the keys parseCSS has written into style sources so far
IssuedKeys ==
    {"--anchor-" \o uuid(n) : n \in 1..uuidCount}
        \cup {cloneKey("--anchor-" \o uuid(n), prop) : n \in 1..uuidCount, prop \in InsetProperties}

IsPlaceholder(node) ==
    /\ node.type = "Rule"
    /\ isVarFunction(node.value)
    /\ node.value.children[1].name \in IssuedKeys

HasAnchorCall(node) ==
    \/ node.type = "Rule" /\ isAnchorFunction(node.value)
    \/ \E b \in 1..Len(node.block) : \E d \in 1..Len(node.block[b]) :
          isAnchorFunction(node.block[b][d].value)

\* the text holds placeholders, no anchor() call and no other var() reference
OnlyPlaceholders(data) ==
    /\ \E pos \in Nodes(data) : IsPlaceholder(NodeAt(data, pos))
    /\ \A pos \in Nodes(data) :
          /\ ~HasAnchorCall(NodeAt(data, pos))
          /\ (NodeAt(data, pos).type = "Rule" /\ isVarFunction(NodeAt(data, pos).value))
                => IsPlaceholder(NodeAt(data, pos))

\* C6: parseCSS over rewritten text that holds only placeholders overwrites no
\* css, sets no changed flag, and derives no anchor reference from it.
C6_RewrittenTextNoOp ==
    (Parsed /\ OnlyPlaceholders(styleIn)) =>
        /\ styleData = styleIn
        /\ \A sel \in DOMAIN rules : DOMAIN rules[sel].declarations = {}

\* a second invocation over placeholder-only text, one source of it carrying
\* the author's formatting and a clear changed flag
C6_Witness ==
    /\ Parsed
    /\ calls = 2
    /\ OnlyPlaceholders(styleIn)
    /\ \E n \in 1..Len(styleIn) : styleIn[n].css.formatted /\ ~styleIn[n].changed
    /\ styleData = styleIn

(***************************************************************************)
(* C7: indirection keys                                                    *)
(***************************************************************************)
\* the places of the returned rule model that hold an AnchorFunction: a
\* declaration slot <<"declarations", selector, 0, property>> or a slot of a
\* try-block <<"fallbacks", name, block, property>> of an array a rule refers to
RefSlots ==
    {<<"declarations", sel, 0, prop>> : sel \in DOMAIN rules, prop \in InsetProperties}
        \cup {<<"fallbacks", rules[sel].fallbacks, b, prop>> :
                 sel \in DOMAIN rules, b \in 1..4, prop \in InsetProperties}

HoldsRef(slot) ==
    IF slot[1] = "declarations"
    THEN slot[4] \in DOMAIN rules[slot[2]].declarations
    ELSE /\ slot[2] \in DOMAIN tryBlocks
         /\ slot[3] <= Len(tryBlocks[slot[2]])
         /\ slot[4] \in DOMAIN tryBlocks[slot[2]][slot[3]]
         /\ tryBlocks[slot[2]][slot[3]][slot[4]].isFn

KeyOf(slot) ==
    IF slot[1] = "declarations"
    THEN rules[slot[2]].declarations[slot[4]].key
    ELSE tryBlocks[slot[2]][slot[3]][slot[4]].fn.key

\* C7: no two anchor references of a returned rule model carry the same key.
\* The code gives the clones of one custom property the same key whenever two
\* selectors consume it through the same property.
C7_KeysUnique ==
    Parsed =>
        \A s1 \in RefSlots, s2 \in RefSlots :
            (HoldsRef(s1) /\ HoldsRef(s2) /\ s1 # s2) => KeyOf(s1) # KeyOf(s2)

(***************************************************************************)
(* C8: duplicate anchor names                                              *)
(***************************************************************************)
Selectors == {"#a1", "#a2", "#t1", "#t2"}
Max(S) == CHOOSE i \in S : \A j \in S : i >= j

\* the nodes of the input in walk order, over all sources in input order
RECURSIVE Flat(_)
Flat(data) == IF data = <<>> THEN <<>> ELSE Head(data).css.items \o Flat(Tail(data))
InputNodes == Flat(styleIn)

\* the selectors of the rules of the input that declare anchor-name: name
RECURSIVE Declarers(_, _)
Declarers(nodes, name) ==
    IF nodes = <<>>
    THEN <<>>
    ELSE (IF isAnchorNameDeclaration(Head(nodes)) /\ Head(nodes).value.name = name
          THEN <<Head(nodes).prelude>>
          ELSE <<>>) \o Declarers(Tail(nodes), name)

\* C8: after parseCSS the registry entry of a name lists the selectors that
\* declare it in the input, once per declaration and in declaration order, and
\* every direct reference to the name is bound to the element the validity
\* check accepts among that list.  The code keeps the entries of earlier
\* invocations in front of them (see C5).
C8_RegistryListsDeclarers ==
    Parsed =>
        \A name \in DOMAIN anchorNames :
            /\ anchorNames[name] = Declarers(InputNodes, name)
            /\ \A sel \in DOMAIN rules : \A prop \in DOMAIN rules[sel].declarations :
                  rules[sel].declarations[prop].anchorName = name
                      => rules[sel].declarations[prop].anchorEl =
                             validatedForPositioning(querySelector(sel), Declarers(InputNodes, name))

(***************************************************************************)
(* C9, C10: position-fallback                                              *)
(***************************************************************************)
FallbackDeclsOf(sel) ==
    {i \in 1..Len(InputNodes) :
        isFallbackDeclaration(InputNodes[i]) /\ InputNodes[i].prelude = sel}

\* the name of the last position-fallback declaration of the selector
FallbackNameOf(sel) == InputNodes[Max(FallbackDeclsOf(sel))].value.name

\* the at-rules of that name in the input that have a @try block
AtRulesNamed(name) ==
    {i \in 1..Len(InputNodes) :
        /\ isFallbackAtRule(InputNodes[i])
        /\ InputNodes[i].prelude = name
        /\ Len(InputNodes[i].block) > 0}

\* what the binding rule of direct declarations gives a call for the target
BoundFor(sel, call) ==
    validatedForPositioning(querySelector(sel), Get(anchorNames, CallName(call, sel), <<>>))

\* C9: a selector whose position-fallback names an at-rule of the input gets
\* one try-block per @try block, in source order; every anchor() in a block is
\* bound by registry lookup and validity check against the selector's own
\* target, every other declaration kept as its text.  The code binds the
\* blocks of a name shared by two selectors against the last selector only
\* (see C22).
C9_TryBlocksBound ==
    Parsed =>
        \A sel \in Selectors :
            (FallbackDeclsOf(sel) # {} /\ AtRulesNamed(FallbackNameOf(sel)) # {}) =>
                LET atRule == InputNodes[Max(AtRulesNamed(FallbackNameOf(sel)))]
                IN  /\ sel \in DOMAIN rules
                    /\ rules[sel].fallbacks \in DOMAIN tryBlocks
                    /\ Len(tryBlocks[rules[sel].fallbacks]) = Len(atRule.block)
                    /\ \A b \in 1..Len(atRule.block) : \A d \in 1..Len(atRule.block[b]) :
                          LET decl == atRule.block[b][d]
                              block == tryBlocks[rules[sel].fallbacks][b]
                          IN  /\ decl.property \in DOMAIN block
                              /\ IF isAnchorFunction(decl.value)
                                 THEN /\ block[decl.property].isFn
                                      /\ block[decl.property].fn.anchorEl = BoundFor(sel, decl.value)
                                 ELSE /\ ~block[decl.property].isFn
                                      /\ block[decl.property].text = generateValue(decl.value)

\* the selector has no inset declaration holding an anchor() call or a
\* var() reference
NoInsetFunction(sel) ==
    \A i \in 1..Len(InputNodes) :
        ~(/\ InputNodes[i].type = "Rule"
          /\ InputNodes[i].prelude = sel
          /\ isInset(InputNodes[i].property)
          /\ InputNodes[i].value.type = "Function")

UnmatchedFallback(sel) ==
    FallbackDeclsOf(sel) # {} /\ AtRulesNamed(FallbackNameOf(sel)) = {}

\* C10: a selector whose position-fallback names no at-rule of the input gets
\* no fallbacks in the returned rules, and is absent from them when none of
\* its inset declarations holds an anchor() call either.
C10_UnmatchedFallback ==
    Parsed =>
        \A sel \in Selectors :
            UnmatchedFallback(sel) =>
                /\ sel \in DOMAIN rules => rules[sel].fallbacks = Undef
                /\ NoInsetFunction(sel) => sel \notin DOMAIN rules

\* parseCSS has returned rules without the selector of an unmatched
\* position-fallback that has no anchor() of its own
C10_Witness ==
    /\ Parsed
    /\ \E sel \in Selectors :
          UnmatchedFallback(sel) /\ NoInsetFunction(sel) /\ sel \notin DOMAIN rules
(***************************************************************************)
(* Vocabulary of the properties of the fallback selector                   *)
(***************************************************************************)
NoEdgeOverflows(o) == o.top <= 0 /\ o.right <= 0 /\ o.bottom <= 0 /\ o.left <= 0

\* block b (0 is the default box) was measured by the evaluation / was measured and fits
MeasuredIn(ev, b) == \E r \in ev.results : r.block = b
FitsIn(ev, b) == \E r \in ev.results : r.block = b /\ NoEdgeOverflows(r.overflow)

\* block k is the first try-block whose measured overflow is <= 0 on every edge
FirstFit(ev, k) ==
    /\ k \in 1..Len(fallbacks)
    /\ FitsIn(ev, k)
    /\ \A j \in 1..(k - 1) : MeasuredIn(ev, j) /\ ~FitsIn(ev, j)

\* every try-block was measured and none fits
NoneQualifies(ev) == \A j \in 1..Len(fallbacks) : MeasuredIn(ev, j) /\ ~FitsIn(ev, j)

\* the evaluation that ended last ran the normal order past an overflowing default box
NormalEnded ==
    /\ order = "normal"
    /\ last.how # "none"
    /\ Len(fallbacks) >= 1
    /\ MeasuredIn(last, 0)
    /\ ~FitsIn(last, 0)

\* C3: under order = normal, an evaluation whose default box overflows applies the
\* try-blocks in source order; when it ends behind the first block k that fits, the
\* marker is block k's identifier and no later block was applied or measured; when every
\* block was measured and none fits, the marker is absent.
C3_NormalOrderFirstFit ==
    NormalEnded =>
        /\ \E m \in 0..Len(fallbacks) : last.applied = SubSeq(fallbacks, 1, m)
        /\ evals[last.target] = <<>> => marker[last.target] = last.marker
        /\ \A k \in 1..Len(fallbacks) :
              FirstFit(last, k) =>
                  /\ last.marker = fallbacks[k]
                  /\ last.applied = SubSeq(fallbacks, 1, k)
                  /\ \A j \in (k + 1)..Len(fallbacks) : ~MeasuredIn(last, j)
        /\ NoneQualifies(last) => last.marker = Undef

\* an evaluation ended behind a fitting block that is not the last one
C3_Witness ==
    /\ NormalEnded
    /\ \E k \in 1..(Len(fallbacks) - 1) :
          /\ FirstFit(last, k)
          /\ evals[last.target] = <<>>
          /\ marker[last.target] = fallbacks[k]

\* C4: a notification that arrives while an evaluation of its target is in progress
\* changes neither the marker nor the evaluations of that target (no write, no
\* measurement), an evaluation begins only in a notification step (nothing is replayed
\* when the running one ends), and a target never has two evaluations in progress.
C4_BusyNotificationDropped ==
    [][\A t \in TargetSet :
          /\ Len(evals'[t]) <= 1
          /\ (notified' # notified /\ Len(evals[t]) > 0) =>
                 /\ evals'[t] = evals[t]
                 /\ marker'[t] = marker[t]
                 /\ checking'[t] = checking[t]
          /\ notified' = notified =>
                 \A e \in 1..Len(evals'[t]) :
                     evals'[t][e].results = {} =>
                         \E d \in 1..Len(evals[t]) : evals[t][d] = evals'[t][e]]_vars

\* a notification was dropped while the evaluation of its target is suspended
C4_Witness ==
    \E t \in TargetSet :
        /\ dropped[t] > 0
        /\ Len(evals[t]) = 1
        /\ checking[t]

\* C11: for every subscription established on a target there is a stop operation for
\* that target: the cleanup autoUpdate returned for it is kept, so that it can be invoked
\* and no callback runs for the target afterwards.
C11_StopExposed ==
    \A t \in subscribed : t \in cleanups

(***************************************************************************)
(* Vocabulary of the properties of the pixel resolver                      *)
(***************************************************************************)
\* the anchorValue the last getPixelValue call was made for
Asked == anchorValues[resolved.index]

\* the last call had a target element and an anchor rect
Bound == resolved.index # 0 /\ resolved.targetEl # Undef /\ resolved.anchorRect # None

\* origin and size of a rect on the axis of top (vertical) or left (horizontal)
OriginOn(property, rect) == IF property = "top" THEN rect.y ELSE rect.x
ExtentOn(property, rect) == IF property = "top" THEN rect.height ELSE rect.width

\* the sides of the box that lie on the axis of top / of left, with their percentage
SidesOn(property) ==
    IF property = "top" THEN {"top", "center", "bottom"} ELSE {"left", "center", "right"}
KeywordPercentage(side) ==
    IF side \in {"left", "top"} THEN 0 ELSE IF side = "center" THEN 50 ELSE 100

\* the last call resolved a side keyword of the box for top or left against a rect
TopLeftResolved ==
    /\ Bound
    /\ Asked.anchorSize = Undef
    /\ Asked.property \in {"top", "left"}
    /\ Asked.anchorSide \in SidesOn(Asked.property)

\* C12: for target property top or left and a bound anchor rect, getPixelValue returns
\* "<v>px" with v = origin + size * percentage / 100 on the property's axis (left/top 0,
\* center 50, right/bottom 100), and that text is what the indirection key holds; bottom
\* feeding top yields exactly Y + H; a negative origin is not clipped and a half pixel is
\* not rounded.
C12_TopLeftOffset ==
    TopLeftResolved =>
        /\ resolved.value =
              pixels(100 * OriginOn(Asked.property, resolved.anchorRect[1])
                     + ExtentOn(Asked.property, resolved.anchorRect[1])
                          * KeywordPercentage(Asked.anchorSide))
        /\ rootStyle[Asked.uuid] = resolved.value
        /\ (Asked.property = "top" /\ Asked.anchorSide = "bottom") =>
              resolved.value =
                  ToString(resolved.anchorRect[1].y + resolved.anchorRect[1].height) \o "px"
        /\ (Asked.property = "left" /\ Asked.anchorSide = "center"
               /\ resolved.anchorRect[1] = Rect(2, 7, 5, 20)) => resolved.value = "4.5px"
        /\ (Asked.property = "left" /\ Asked.anchorSide = "left"
               /\ resolved.anchorRect[1] = Rect(-3, 0, 10, 8)) => resolved.value = "-3px"

\* bottom of a rect at y = 7 of height 20 resolved for top
C12_Witness ==
    /\ TopLeftResolved
    /\ Asked.property = "top"
    /\ Asked.anchorSide = "bottom"
    /\ resolved.anchorRect[1] = Rect(2, 7, 5, 20)
    /\ rootStyle[Asked.uuid] = "27px"

\* the axis of a physical side keyword or of an inset property
Vertical == {"top", "bottom"}
Horizontal == {"left", "right"}
OnOtherAxis(property, side) ==
    \/ property \in Vertical /\ side \in Horizontal
    \/ property \in Horizontal /\ side \in Vertical

\* the last call was made for an anchor-size() reference / for an anchor() reference
SizeAsked == resolved.index # 0 /\ Asked.anchorSize # Undef
SideAsked == resolved.index # 0 /\ Asked.anchorSize = Undef /\ Asked.anchorSide # Undef

\* the reference of the last call does not go with its target property
Mismatch ==
    \/ SizeAsked /\ Asked.property \in Vertical \cup Horizontal
    \/ SideAsked /\ Asked.property \notin Vertical \cup Horizontal
    \/ SideAsked /\ OnOtherAxis(Asked.property, Asked.anchorSide)

\* C13: getPixelValue returns the fallback text unchanged for an anchor-size()
\* reference on a property that is not a sizing property, for an anchor() reference on a
\* property that is not an inset property, and for a physical side keyword on the other
\* axis than the inset target property; the text is what the indirection key holds.
C13_MismatchFallsBack ==
    Mismatch =>
        /\ resolved.value = Asked.fallbackValue
        /\ rootStyle[Asked.uuid] = Asked.fallbackValue

\* a left side was asked for top with target and rect at hand
C13_Witness ==
    /\ Bound
    /\ Mismatch
    /\ Asked.property = "top"
    /\ Asked.anchorSide = "left"
    /\ rootStyle[Asked.uuid] = "50%"

\* the loops have gone through entry i, whose anchor or target element is missing
Unavailable(i) ==
    /\ i \in 1..handled
    /\ (anchorValues[i].anchorEl = Null \/ anchorValues[i].targetEl = Null)

\* C14: when the anchor element, the target element or the anchor rect is unavailable,
\* the indirection key of the reference holds the reference's fallback text verbatim,
\* whatever its side or size keyword and target property; applyAnchorPositions has
\* written the key once and has established no subscription for the reference.
C14_UnavailableFallsBack ==
    /\ \A i \in 1..Len(anchorValues) :
          Unavailable(i) =>
              /\ rootStyle[anchorValues[i].uuid] = anchorValues[i].fallbackValue
              /\ setCount[anchorValues[i].uuid] = 1
              /\ i \notin updaters
    /\ (resolved.index # 0 /\ (resolved.targetEl = Undef \/ resolved.anchorRect = None)) =>
          resolved.value = Asked.fallbackValue

\* a reference to the bottom side for top, without anchor element, behind an update of
\* another reference
C14_Witness ==
    \E i \in 1..Len(anchorValues) :
        /\ Unavailable(i)
        /\ anchorValues[i].anchorEl = Null
        /\ anchorValues[i].targetEl # Null
        /\ anchorValues[i].property = "top"
        /\ anchorValues[i].anchorSide = "bottom"
        /\ rootStyle[anchorValues[i].uuid] = "50%"
        /\ updates > 0

\* the sides resolveLogicalSideKeyword is asked about by getPixelValue
LogicalKeywords == {"start", "self-start", "end", "self-end"}

\* the last call resolved a logical keyword or a percentage for top or left
LogicalResolved ==
    /\ Bound
    /\ Asked.anchorSize = Undef
    /\ Asked.property \in {"top", "left"}
    /\ Asked.anchorSide \in LogicalKeywords \cup Numerals

Flipped(p, rtl) == IF rtl THEN 100 - p ELSE p

\* the percentage of a side as stated: a number is the same for either direction
PassedThrough(side, rtl) ==
    IF side \in {"start", "self-start"} THEN Flipped(0, rtl)
    ELSE IF side \in {"end", "self-end"} THEN Flipped(100, rtl)
    ELSE NumberOf(side)

\* the percentage of a side when a number is flipped like a keyword
FlippedAlike(side, rtl) ==
    IF side \in {"start", "self-start"} THEN Flipped(0, rtl)
    ELSE IF side \in {"end", "self-end"} THEN Flipped(100, rtl)
    ELSE Flipped(NumberOf(side), rtl)

\* the text of the offset at a percentage of the rect of the last call
OffsetAt(percentage) ==
    pixels(100 * OriginOn(Asked.property, resolved.anchorRect[1])
           + ExtentOn(Asked.property, resolved.anchorRect[1]) * percentage)

\* C19 as stated: start/self-start map to 0 and end/self-end to 100, flipped to 100 - p
\* when the target is right-to-left; a numeric percentage p results in p for either
\* writing direction.
C19_NumberPassesThrough ==
    LogicalResolved => resolved.value = OffsetAt(PassedThrough(Asked.anchorSide, resolved.rtl))

\* C19, amended: resolveLogicalSideKeyword maps start/self-start to 0, end/self-end to
\* 100 and a numeric percentage p to p, and flips each of them to 100 - p when the
\* target is right-to-left; any other keyword, and NaN, yields no percentage.
C19_NumberFlipsToo ==
    /\ \A rtl \in BOOLEAN :
          /\ \A side \in LogicalKeywords \cup Numerals :
                resolveLogicalSideKeyword(side, rtl) = Some(FlippedAlike(side, rtl))
          /\ \A side \in {"top", "left", "right", "bottom", "center", "NaN", Undef} :
                resolveLogicalSideKeyword(side, rtl) = None
    /\ LogicalResolved =>
          resolved.value = OffsetAt(FlippedAlike(Asked.anchorSide, resolved.rtl))
    /\ (Bound /\ Asked.anchorSize = Undef /\ Asked.anchorSide = "NaN") =>
          resolved.value = Asked.fallbackValue

\* 25% of a rect at x = 2 of width 5 resolved for left of a right-to-left target
C19_Witness ==
    /\ LogicalResolved
    /\ resolved.rtl
    /\ Asked.anchorSide = "25"
    /\ Asked.property = "left"
    /\ resolved.anchorRect[1] = Rect(2, 7, 5, 20)
    /\ rootStyle[Asked.uuid] = "5.75px"

(***************************************************************************)
(* Properties of the most-* orders                                         *)
(***************************************************************************)
\* every try-block measurement in a set of results was taken under the block's own marker
UnderOwnMarker(results) ==
    \A r \in results : r.block >= 1 => r.under = fallbacks[r.block]

\* C15: in an evaluation under a most-* order every try-block is measured while that
\* block's own marker is the one set on the target: no other block's marker is written
\* between setting block i's marker and completing block i's measurement.
C15_MeasuredUnderOwnMarker ==
    order # "normal" =>
        /\ UnderOwnMarker(last.results)
        /\ \A t \in TargetSet : \A e \in 1..Len(evals[t]) : UnderOwnMarker(evals[t][e].results)

\* the part of an overflow that is positive
Positive(n) == IF n > 0 THEN n ELSE 0

\* the visible size an ended evaluation recorded for block b on the axis of the order
RecordedSize(ev, b) ==
    LET o == (CHOOSE r \in ev.results : r.block = b).overflow
    IN  IF order \in {"most-height", "most-block-size"}
        THEN o.clientHeight - Positive(o.top) - Positive(o.bottom)
        ELSE o.clientWidth - Positive(o.left) - Positive(o.right)

\* the evaluation that ended last went through the selection of a most-* order
MostEnded == last.how = "most"

\* C16: when an evaluation under a most-* order ends with its selection, the target's
\* marker is the identifier of a try-block whose recorded visible size on the axis of
\* the order is the maximum over all try-blocks, and no earlier block reaches that size.
C16_MostVisibleWins ==
    MostEnded =>
        /\ order # "normal"
        /\ marker[last.target] = last.marker
        /\ \A b \in 1..Len(fallbacks) : MeasuredIn(last, b)
        /\ \E k \in 1..Len(fallbacks) :
              /\ last.marker = fallbacks[k]
              /\ \A j \in 1..Len(fallbacks) : RecordedSize(last, j) <= RecordedSize(last, k)
              /\ \A j \in 1..(k - 1) : RecordedSize(last, j) < RecordedSize(last, k)

\* two blocks tied for the maximum: the first one is the marker
C16_Witness ==
    /\ MostEnded
    /\ order = "most-height"
    /\ Len(fallbacks) = 2
    /\ RecordedSize(last, 1) = RecordedSize(last, 2)
    /\ marker[last.target] = fallbacks[1]

(***************************************************************************)
(* Properties of the default box and of the busy flag                      *)
(***************************************************************************)
\* the default box was measured while the target carried no marker
DefaultUnmarked(results) == \A r \in results : r.block = 0 => r.under = Undef

\* C17: on every notification that is not dropped the default overflow is measured with
\* no try-block marker on the target; if no edge overflows, the evaluation ends there
\* with the marker absent, the busy flag cleared and no try-block applied or measured.
C17_DefaultBoxFits ==
    /\ DefaultUnmarked(last.results)
    /\ \A t \in TargetSet : \A e \in 1..Len(evals[t]) :
          /\ DefaultUnmarked(evals[t][e].results)
          /\ ~FitsIn(evals[t][e], 0)
    /\ (last.how # "none" /\ FitsIn(last, 0)) =>
          /\ last.how = "default-fits"
          /\ last.marker = Undef
          /\ marker[last.target] = Undef
          /\ ~checking[last.target]
          /\ last.applied = <<>>
          /\ \A b \in 1..Len(fallbacks) : ~MeasuredIn(last, b)

\* the second notification of a target found the default box touching its edges
C17_Witness ==
    /\ last.how = "default-fits"
    /\ subscribed = {"#e1"}
    /\ notified = 2
    /\ Layout(0, 0, 0, 0) \in {r.overflow : r \in last.results}
    /\ marker["#e1"] = Undef
    /\ ~checking["#e1"]

\* a step leaves everything of target u alone
Untouched(u) ==
    /\ evals'[u] = evals[u]
    /\ marker'[u] = marker[u]
    /\ checking'[u] = checking[u]
    /\ dropped'[u] = dropped[u]

\* C18: the busy flag is per target element: a notification is dropped exactly when the
\* flag of its own target is set, whatever evaluations of other targets are in progress,
\* and a step of one target's evaluation writes neither the marker nor the flag of
\* another target.
C18_BusyFlagPerTarget ==
    [][/\ notified' # notified =>
              \E t \in TargetSet :
                  /\ \A u \in TargetSet \ {t} : Untouched(u)
                  /\ IF checking[t]
                     THEN dropped'[t] = dropped[t] + 1 /\ evals'[t] = evals[t]
                     ELSE dropped'[t] = dropped[t] /\ Len(evals'[t]) = Len(evals[t]) + 1
       /\ \A t \in TargetSet :
              (marker'[t] # marker[t] \/ checking'[t] # checking[t]) =>
                  /\ evals'[t] # evals[t]
                  /\ \A u \in TargetSet \ {t} : Untouched(u)]_vars

\* both targets are being evaluated, one of them carrying a try-block marker
C18_Witness ==
    /\ Len(evals["#e1"]) = 1
    /\ Len(evals["#e2"]) = 1
    /\ marker["#e1"] = fallbacks[1]
    /\ marker["#e2"] = Undef
    /\ dropped["#e1"] = 0
    /\ dropped["#e2"] = 0

(***************************************************************************)
(* C20: declarations that come again                                       *)
(***************************************************************************)
\* the anchor() calls of the input on property prop of selector sel
CallsOn(sel, prop) ==
    {pos \in DirectCalls :
        NodeAt(styleIn, pos).prelude = sel /\ NodeAt(styleIn, pos).property = prop}

\* the last position of a set in walk order: style source by style source
LastOf(S) ==
    CHOOSE p \in S : \A q \in S : q[1] < p[1] \/ (q[1] = p[1] /\ q[2] <= p[2])

\* the input sets the property of the selector through a custom property as well
ViaCustomProperty(sel, prop) ==
    \E i \in 1..Len(InputNodes) :
        /\ InputNodes[i].type = "Rule"
        /\ InputNodes[i].prelude = sel
        /\ InputNodes[i].property = prop
        /\ isVarFunction(InputNodes[i].value)

\* the side a call names: its second argument
EdgeOf(call) == IF Len(call.children) >= 2 THEN call.children[2].name ELSE Undef

\* the slot holds the reference parsed from the call at pos
ParsedFrom(pos) ==
    /\ IsRefOfCall(pos)
    /\ RefOfCall(pos).anchorEdge = EdgeOf(NodeAt(styleIn, pos).value)
    /\ RefOfCall(pos).fallbackValue =
          IF FallbackClause(NodeAt(styleIn, pos).value) = "" THEN "0px"
          ELSE FallbackClause(NodeAt(styleIn, pos).value)

\* the try-blocks stored under a name are the @try blocks of the at-rule, one by one
BlocksOf(name, atRule) ==
    /\ name \in DOMAIN tryBlocks
    /\ Len(tryBlocks[name]) = Len(atRule.block)
    /\ \A b \in 1..Len(atRule.block) :
          /\ DOMAIN tryBlocks[name][b] =
                {atRule.block[b][d].property : d \in 1..Len(atRule.block[b])}
          /\ \A d \in 1..Len(atRule.block[b]) :
                LET decl == atRule.block[b][d]
                    held == tryBlocks[name][b][decl.property]
                IN  IF isAnchorFunction(decl.value)
                    THEN held.isFn /\ held.fn.anchorEdge = EdgeOf(decl.value)
                    ELSE ~held.isFn /\ held.text = generateValue(decl.value)

C21_BusyFlagCleared ==
    \A t \in TargetSet : evals[t] = <<>> => ~checking[t]

(***************************************************************************)
(* Properties of a fallback name shared by selectors                       *)
(***************************************************************************)
\* the selector's position-fallback names an at-rule of the input
NamesAtRule(sel) ==
    FallbackDeclsOf(sel) # {} /\ AtRulesNamed(FallbackNameOf(sel)) # {}

\* every anchor() of the at-rule the selector names is held, in the fallbacks of
\* the selector's rule, with the anchorEl its own target gives it
OwnBinding(sel) ==
    LET atRule == InputNodes[Max(AtRulesNamed(FallbackNameOf(sel)))]
    IN  /\ sel \in DOMAIN rules
        /\ rules[sel].fallbacks \in DOMAIN tryBlocks
        /\ \A b \in 1..Len(atRule.block) : \A d \in 1..Len(atRule.block[b]) :
              LET decl == atRule.block[b][d]
              IN  isAnchorFunction(decl.value) =>
                      /\ b \in 1..Len(tryBlocks[rules[sel].fallbacks])
                      /\ decl.property \in DOMAIN tryBlocks[rules[sel].fallbacks][b]
                      /\ tryBlocks[rules[sel].fallbacks][b][decl.property].isFn
                      /\ tryBlocks[rules[sel].fallbacks][b][decl.property].fn.anchorEl
                             = BoundFor(sel, decl.value)

\* C22: when two different selectors declare position-fallback with the same
\* name, the fallbacks of each selector's rule carry anchorEl values bound
\* against that selector's own target; binding the blocks for one of them
\* leaves the values held for the other as they were.
C22_SharedNameBoundPerSelector ==
    Parsed =>
        \A s1 \in Selectors : \A s2 \in Selectors \ {s1} :
            (NamesAtRule(s1) /\ NamesAtRule(s2) /\ FallbackNameOf(s1) = FallbackNameOf(s2))
                => OwnBinding(s1) /\ OwnBinding(s2)

(***************************************************************************)
(* Properties of the number of measurements of an evaluation               *)
(***************************************************************************)
\* the measurements hold at most one record for the default box and one per try-block
WithinBudget(results) ==
    /\ \A r \in results : r.block \in 0..Len(fallbacks)
    /\ \A r1 \in results : \A r2 \in results : r1.block = r2.block => r1 = r2
    /\ Cardinality(results) <= Len(fallbacks) + 1

\* C23: an evaluation for a target with N try-blocks ends after at most N + 1
\* overflow measurements, one for the default box and at most one per try-block,
\* whatever the overflow values and whichever order is in effect: an evaluation still
\* waiting for a measurement has completed at most N of them, and an evaluation that
\* has ended completed at most N + 1.
C23_MeasurementsBounded ==
    /\ \A t \in TargetSet : \A e \in 1..Len(evals[t]) :
          /\ WithinBudget(evals[t][e].results)
          /\ Cardinality(evals[t][e].results) <= Len(fallbacks)
    /\ WithinBudget(last.results)

\* an evaluation in normal order has ended after measuring the default box and every
\* one of the try-blocks, none of which fits
C23_Witness ==
    /\ last.how = "none-fits"
    /\ Len(fallbacks) = MaxTryBlocks
    /\ Cardinality(last.results) = Len(fallbacks) + 1
    /\ {r.block : r \in last.results} = 0..Len(fallbacks)

====
